---- MODULE Spec2Model ----
(***************************************************************************)
(* Model of the script parser of src/app.py (parse_script_from_pdf and its *)
(* helpers).  A text is a sequence of characters, each character a         *)
(* one-element string; the regular expressions of the source are modelled  *)
(* by the left-to-right scans that Python's re module performs for them.   *)
(***************************************************************************)
EXTENDS Integers, Sequences, FiniteSets, TLC

\* ------------------------------------------------------------------------
\* Characters
\* ------------------------------------------------------------------------
NL == "\n"
CR == "\r"
TAB == "\t"
FF == "\f"
VT == "VT"       \* '\x0b'
NBSP == "NBSP"   \* '\u00A0'
SP == " "

\* characters for which str.isspace() holds / that \s matches
Whitespace == {SP, TAB, NL, CR, FF, VT, NBSP}

\* line boundaries of str.splitlines()
LineBreaks == {NL, CR, FF, VT}

UpperSeq == <<"A","B","C","D","E","F","G","H","I","J","K","L","M",
              "N","O","P","Q","R","S","T","U","V","W","X","Y","Z">>
LowerSeq == <<"a","b","c","d","e","f","g","h","i","j","k","l","m",
              "n","o","p","q","r","s","t","u","v","w","x","y","z">>
UpperLetters == {UpperSeq[i] : i \in 1..26}
LowerLetters == {LowerSeq[i] : i \in 1..26}

\* [A-Z...] : first character of a speaker name
NameLead == UpperLetters
\* [A-Za-z...' .\-] : further characters of a speaker name
NameChars == UpperLetters \cup LowerLetters \cup {"'", SP, ".", "-"}

\* ------------------------------------------------------------------------
\* String helpers
\* ------------------------------------------------------------------------
\* first index j >= i with j > Len(s) or s[j] \notin S (end of the run of S at i)
SkipSet(s, i, S) ==
  LET F[j \in 1..Len(s)+1] ==
        IF j > Len(s) THEN j
        ELSE IF s[j] \in S THEN F[j+1] ELSE j
  IN F[i]

SkipWS(s, i) == SkipSet(s, i, Whitespace)

\* s[i..] (empty if i > Len(s))
From(s, i) == SubSeq(s, i, Len(s))

\* index of the first c at or after i, 0 if none (str.find / [^c]*c)
FindFrom(s, i, c) ==
  LET F[j \in 1..Len(s)+1] ==
        IF j > Len(s) THEN 0
        ELSE IF s[j] = c THEN j ELSE F[j+1]
  IN IF i > Len(s) THEN 0 ELSE F[i]

\* re.sub / str.replace with a pattern that never matches the empty string:
\* ends[i] is the index after the match that starts at i, or 0 if no match
\* starts there; matches are taken left to right, without overlap
ReSub(s, ends, repl) ==
  LET F[i \in 1..Len(s)+1] ==
        IF i > Len(s) THEN <<>>
        ELSE IF ends[i] > i THEN repl \o F[ends[i]] ELSE <<s[i]>> \o F[i+1]
  IN F[1]


\* str.strip()
Strip(s) ==
  LET a == SkipWS(s, 1)
      E[j \in 0..Len(s)] ==
        IF j < a THEN j
        ELSE IF s[j] \in Whitespace THEN E[j-1] ELSE j
  IN IF a > Len(s) THEN <<>> ELSE SubSeq(s, a, E[Len(s)])

StartsWith(s, p) == Len(s) >= Len(p) /\ SubSeq(s, 1, Len(p)) = p

Contains(s, p) ==
  \E i \in 1..(Len(s) - Len(p) + 1) : SubSeq(s, i, i + Len(p) - 1) = p

UpperChar(c) ==
  IF c \in LowerLetters
  THEN UpperSeq[CHOOSE i \in 1..26 : LowerSeq[i] = c]
  ELSE c

\* str.upper() on the modelled alphabet
Upper(s) == [i \in 1..Len(s) |-> UpperChar(s[i])]

\* "\n".join(ls)
JoinNL(ls) ==
  LET F[i \in 0..Len(ls)] ==
        IF i = 0 THEN <<>>
        ELSE IF i = 1 THEN ls[1]
        ELSE F[i-1] \o <<NL>> \o ls[i]
  IN F[Len(ls)]

\* str.splitlines(): a line ends at each line boundary ("\r\n" is one
\* boundary); no empty last line after a final boundary
SplitLines(t) ==
  LET F[i \in 1..Len(t)+1] ==
        \* <<lines closed before i, characters of the line open at i>>
        IF i = 1 THEN << <<>>, <<>> >>
        ELSE LET p == F[i-1]
                 c == t[i-1]
             IN IF c \in LineBreaks
                THEN IF c = NL /\ i > 2 /\ t[i-2] = CR
                     THEN p
                     ELSE << Append(p[1], p[2]), <<>> >>
                ELSE << p[1], Append(p[2], c) >>
      r == F[Len(t)+1]
  IN IF r[2] = <<>> THEN r[1] ELSE Append(r[1], r[2])

\* ------------------------------------------------------------------------
\* _preclean_text
\* ------------------------------------------------------------------------
\* text.replace('\r', '')
RemoveCR(s) == SelectSeq(s, LAMBDA c : c # CR)

\* \*{1,3}
MatchStars(s, i) ==
  IF s[i] = "*"
  THEN LET e == SkipSet(s, i, {"*"}) IN IF e > i + 3 THEN i + 3 ELSE e
  ELSE 0

\* ^_+\s*  (MULTILINE)
MatchLeadUnderscore(s, i) ==
  IF (i = 1 \/ s[i-1] = NL) /\ s[i] = "_"
  THEN SkipWS(s, SkipSet(s, i, {"_"}))
  ELSE 0

\* \s*_+$  (MULTILINE)
MatchTrailUnderscore(s, i) ==
  LET j == SkipWS(s, i)
      k == SkipSet(s, j, {"_"})
  IN IF k > j /\ (k > Len(s) \/ s[k] = NL) THEN k ELSE 0

\* the two-character sequence backslash + c, for str.replace
MatchEscOpen(s, i) ==
  IF s[i] = "\\" /\ i < Len(s) /\ s[i+1] = "(" THEN i + 2 ELSE 0

MatchEscClose(s, i) ==
  IF s[i] = "\\" /\ i < Len(s) /\ s[i+1] = ")" THEN i + 2 ELSE 0

\* \s*:\s*
MatchColon(s, i) ==
  LET j == SkipWS(s, i)
  IN IF j <= Len(s) /\ s[j] = ":" THEN SkipWS(s, j + 1) ELSE 0

\* [\t\x0b\x0c\u00A0]+
BlankRun == {TAB, VT, FF, NBSP}

MatchBlankRun(s, i) ==
  IF s[i] \in BlankRun THEN SkipSet(s, i, BlankRun) ELSE 0

preclean_text(t) ==
  LET t1 == RemoveCR(t)
      t2 == ReSub(t1, [i \in 1..Len(t1) |-> MatchStars(t1, i)], <<>>)
      t3 == ReSub(t2, [i \in 1..Len(t2) |-> MatchLeadUnderscore(t2, i)], <<>>)
      t4 == ReSub(t3, [i \in 1..Len(t3) |-> MatchTrailUnderscore(t3, i)], <<>>)
      t5a == ReSub(t4, [i \in 1..Len(t4) |-> MatchEscOpen(t4, i)], <<"(">>)
      t5 == ReSub(t5a, [i \in 1..Len(t5a) |-> MatchEscClose(t5a, i)], <<")">>)
      t6 == ReSub(t5, [i \in 1..Len(t5) |-> MatchColon(t5, i)], <<":", SP>>)
  IN ReSub(t6, [i \in 1..Len(t6) |-> MatchBlankRun(t6, i)], <<SP>>)

\* ------------------------------------------------------------------------
\* Line classification
\* ------------------------------------------------------------------------
SCENA == <<"S","C","E","N","A">>
PERSONAGGI == <<"P","E","R","S","O","N","A","G","G","I">>
ANTIPASTO == <<"A","N","T","I","P","A","S","T","O">>
PRIMI == <<"P","R","I","M","I">>
DOLCI == <<"D","O","L","C","I">>
CAFF == <<"C","A","F","F">>

is_section_heading(line) ==
  LET u == Upper(line)
  IN \/ StartsWith(u, SCENA \o <<SP>>)
     \/ Contains(u, PERSONAGGI)
     \/ Contains(u, ANTIPASTO)
     \/ Contains(u, PRIMI)
     \/ Contains(u, DOLCI)
     \/ Contains(u, CAFF)

\* ^\((?:[^()]|\([^)]*\))*\) : the index after the ")" that closes the
\* group opened at s[1], 0 if the pattern does not match.  After the "(",
\* a character other than a parenthesis is consumed alone, a "(" is
\* consumed with everything up to the next ")", and the first ")" met
\* otherwise ends the match.
StageDirEnd(s) ==
  LET F[i \in 1..Len(s)+1] ==
        IF i > Len(s) THEN 0
        ELSE IF s[i] = ")" THEN i + 1
        ELSE IF s[i] = "("
             THEN LET p == FindFrom(s, i + 1, ")")
                  IN IF p = 0 THEN 0 ELSE F[p + 1]
             ELSE F[i + 1]
  IN IF Len(s) > 0 /\ s[1] = "(" THEN F[2] ELSE 0

\* the pattern without its ^ anchor: every parenthetical is removed
clean_stage_dirs_anywhere(s) ==
  LET ends == [i \in 1..Len(s) |->
                 LET t == From(s, i)
                     e == StageDirEnd(t)
                 IN IF e = 0 THEN 0 ELSE i - 1 + SkipWS(t, e)]
  IN Strip(ReSub(s, ends, <<>>))

clean_stage_dirs_start(s) ==
  LET e == StageDirEnd(s)
  IN Strip(IF e = 0 THEN s ELSE From(s, SkipWS(s, e)))

\* speaker_pat.match(line): the greedy match of
\*   ^(?P<who>NameLead NameChars* (?:\([^)]*\))?)\s*:\s*(?P<what>.*)$
\* ok is FALSE when the line does not match
speaker_pat(line) ==
  IF Len(line) = 0 \/ line[1] \notin NameLead
  THEN [ok |-> FALSE, who |-> <<>>, what |-> <<>>]
  ELSE LET j == SkipSet(line, 2, NameChars)
           p == IF j <= Len(line) /\ line[j] = "(" THEN FindFrom(line, j + 1, ")") ELSE 0
           q == IF p = 0 THEN j ELSE p + 1
           k == SkipWS(line, q)
       IN IF k <= Len(line) /\ line[k] = ":"
          THEN [ok |-> TRUE, who |-> SubSeq(line, 1, q - 1),
                what |-> From(line, SkipWS(line, k + 1))]
          ELSE [ok |-> FALSE, who |-> <<>>, what |-> <<>>]

\* \s*\([^)]*\)\s*
MatchParenGroup(s, i) ==
  LET j == SkipWS(s, i)
      p == IF j <= Len(s) /\ s[j] = "(" THEN FindFrom(s, j + 1, ")") ELSE 0
  IN IF p = 0 THEN 0 ELSE SkipWS(s, p + 1)

\* \s{2,}
MatchSpaces2(s, i) ==
  LET j == SkipWS(s, i) IN IF j - i >= 2 THEN j ELSE 0

\* the name with its parenthetical annotation kept
clean_who_keep_parens(w) ==
  LET w1 == Strip(w)
  IN ReSub(w1, [i \in 1..Len(w1) |-> MatchSpaces2(w1, i)], <<SP>>)

\* who = re.sub(r'\s*\([^)]*\)\s*', '', m.group('who')).strip()
\* who = re.sub(r'\s{2,}', ' ', who)
clean_who(w) ==
  LET w1 == Strip(ReSub(w, [i \in 1..Len(w) |-> MatchParenGroup(w, i)], <<>>))
  IN ReSub(w1, [i \in 1..Len(w1) |-> MatchSpaces2(w1, i)], <<SP>>)

\* a loop that tries speaker_pat before _is_section_heading
heading_branch_after_speaker(line) ==
  is_section_heading(line) /\ ~speaker_pat(line).ok

\* the heading branch of the loop is taken: `if _is_section_heading(line)`
\* comes before `m = speaker_pat.match(line)`, whose result it never sees
heading_branch(line) == is_section_heading(line)

\* ------------------------------------------------------------------------
\* Blocks, flush and compaction
\* ------------------------------------------------------------------------
\* A block is the dict {"character", "text"} of the source.  The fields
\* first and dialogue are bookkeeping that no operation reads: first is the
\* index (in text.splitlines()) of the first line that contributed to the
\* block, dialogue tells that the block was flushed from an accumulator
\* opened by a speaker-line.
Block(c, t, f, d) == [character |-> c, text |-> t, first |-> f, dialogue |-> d]

Sentinel(line, idx) == Block(SCENA, line, idx, FALSE)

\* flush() without the test of current_lines
FlushNoLinesCheck(bs, name, lns, f) ==
  IF name # <<>>
  THEN Append(bs, Block(name, Strip(JoinNL(lns)), f, TRUE))
  ELSE bs

\* `if current_name and current_lines` and `if joined` of flush()
FlushEmits(name, lns) ==
  name # <<>> /\ lns # <<>> /\ Strip(JoinNL(lns)) # <<>>

\* flush() that stores the joined lines without .strip()
FlushNoStrip(bs, name, lns, f) ==
  IF FlushEmits(name, lns)
  THEN Append(bs, Block(name, JoinNL(lns), f, TRUE))
  ELSE bs

\* flush(): the block list after the flush of the accumulator (name, lns)
Flush(bs, name, lns, f) ==
  IF FlushEmits(name, lns)
  THEN Append(bs, Block(name, Strip(JoinNL(lns)), f, TRUE))
  ELSE bs

Accumulator(name, lns) == [name |-> name, lines |-> lns]

\* flush() with the reset inside `if joined:`
FlushResetWhenEmitted(name, lns) ==
  IF FlushEmits(name, lns) THEN Accumulator(<<>>, <<>>)
  ELSE Accumulator(name, lns)

\* flush(): `current_name, current_lines = None, []`, its last statement,
\* outside both ifs
FlushReset(name, lns) == Accumulator(<<>>, <<>>)

\* a return without the flush() after the loop
EndOfInputNoFlush(bs, name, lns, f) == bs

\* the flush() after the loop
EndOfInput(bs, name, lns, f) == Flush(bs, name, lns, f)

\* the sentinel appended before the flush instead of after it
SentinelThenFlush(bs, name, lns, f, line, idx) ==
  Flush(Append(bs, Sentinel(line, idx)), name, lns, f)

\* flush() followed by blocks.append({"character": "SCENA", "text": line})
FlushThenSentinel(bs, name, lns, f, line, idx) ==
  Append(Flush(bs, name, lns, f), Sentinel(line, idx))

\* an iteration that never merges
CompactStepAppendOnly(c, b) == Append(c, b)

\* an iteration that joins the merged texts with a space
CompactStepSpaceJoin(c, b) ==
  IF c # <<>> /\ b.character = SCENA /\ c[Len(c)].character = SCENA
  THEN [c EXCEPT ![Len(c)].text = Strip(@ \o <<SP>> \o b.text)]
  ELSE Append(c, b)

\* one iteration of the compaction loop: compact after block b
CompactStep(c, b) ==
  IF c # <<>> /\ b.character = SCENA /\ c[Len(c)].character = SCENA
  THEN [c EXCEPT ![Len(c)].text = Strip(@ \o <<NL>> \o b.text)]
  ELSE Append(c, b)

\* a loop that merges a sentinel block with the block after it and skips
\* that one, instead of merging into the last output block
CompactorPairwise(bs) ==
  LET G[i \in 1..Len(bs)+1] ==
        IF i > Len(bs) THEN <<>>
        ELSE IF i < Len(bs) /\ bs[i].character = SCENA
                /\ bs[i+1].character = SCENA
             THEN <<[bs[i] EXCEPT !.text = Strip(@ \o <<NL>> \o bs[i+1].text)]>>
                  \o G[i+2]
             ELSE <<bs[i]>> \o G[i+1]
  IN G[1]

\* the compaction loop over bs
Compactor(bs) ==
  LET F[i \in 0..Len(bs)] ==
        IF i = 0 THEN <<>> ELSE CompactStep(F[i-1], bs[i])
  IN F[Len(bs)]

\* the blank-line branch without the test of the last accumulated line
BlankLineEveryTime(name, lns) ==
  IF name # <<>> /\ lns # <<>> THEN Append(lns, <<>>) ELSE lns

\* the blank-line branch testing current_lines[0] instead of [-1]
BlankLineTestsFirst(name, lns) ==
  IF name # <<>> /\ lns # <<>> /\ lns[1] # <<>>
  THEN Append(lns, <<>>)
  ELSE lns

\* the blank-line branch: current_lines after a blank line
BlankLine(name, lns) ==
  IF name # <<>> /\ lns # <<>> /\ lns[Len(lns)] # <<>>
  THEN Append(lns, <<>>)
  ELSE lns

\* a plain-line branch that accumulates only after a first stored line
ContinuationNeedsLines(lns, line) ==
  LET line2 == clean_stage_dirs_start(line)
  IN IF line2 # <<>> /\ lns # <<>> THEN Append(lns, line2) ELSE lns

\* the plain-line branch with an open block: current_lines after the line
Continuation(lns, line) ==
  LET line2 == clean_stage_dirs_start(line)
  IN IF line2 # <<>> THEN Append(lns, line2) ELSE lns

\* the stray line stored after stage-direction stripping
StrayCleaned(bs, line, idx) ==
  Append(bs, Sentinel(clean_stage_dirs_start(line), idx))

\* the plain-line branch with no open block: blocks after the line
Stray(bs, line, idx) == Append(bs, Sentinel(line, idx))

\* line.startswith('(') and line.endswith(')')
IsParenLine(line) == line[1] = "(" /\ line[Len(line)] = ")"

\* ------------------------------------------------------------------------
\* Inputs
\* ------------------------------------------------------------------------
MaxLines == 4   \* lines of a script text
MaxName == 3    \* characters between the speaker's initial and the colon
MaxSay == 2     \* characters after the colon

\* lines of a script, one for each way the parser classifies a line
ScriptLines ==
  { <<>>,                                           \* blank
    <<"M", ":", "a">>,                              \* M:a
    <<"M", ":", "(", "b", ")">>,                    \* M:(b)
    <<"a">>,                                        \* a
    <<"(", "b", ")">>,                              \* (b)
    <<"S", "C", "E", "N", "A", SP, "a">> }          \* SCENA a

\* further lines, each parsed between two lines of ScriptLines
SpecialLines ==
  { <<"M", ":">>,                                   \* M:
    <<"(", "b", ")", SP, "a">>,                     \* (b) a
    <<"a", SP, "(", "b", ")">>,                     \* a (b)
    <<"S", "C", "E", "N", "A", ":", "a">>,          \* SCENA:a
    <<"C", "a", "f", "f", ":", "a">>,               \* Caff:a
    <<"M", SP, SP, "A", "(", "b", ")", ":", "(", "c", "(", "d", ")", ")",
      "e", "(", "f", ")">>,                         \* M  A(b):(c(d))e(f)
    <<"M", SP, ":", TAB, "a", SP>>,                 \* M :<TAB>a
    <<"_", "*", "M", ":", "*", "*", "a", SP, "_">>,  \* _*M:**a _
    <<"\\", "(", "b", "\\", ")", CR>>,              \* \(b\)<CR>
    <<SP, TAB>> }                                   \* a line of blanks

SeqsUpTo(S, n) == UNION { [1..k -> S] : k \in 0..n }

\* one-line texts "M<name>:<say>" over a small alphabet
NameAlphabet == {SP, "(", ")", "a"}
SpeakerTexts ==
  { <<"M">> \o x \o <<":">> \o y :
      x \in SeqsUpTo(NameAlphabet, MaxName), y \in SeqsUpTo(NameAlphabet, MaxSay) }

\* ------------------------------------------------------------------------
\* State
\* ------------------------------------------------------------------------
VARIABLES
  pc,             \* "start", "seg", "compact", "done"
  raw,            \* "\n".join(pages)
  text,           \* _preclean_text(raw)
  lines,          \* text.splitlines()
  ln,             \* index in lines of the line the loop is at
  current_name,   \* <<>> for None
  current_lines,
  cur_first,      \* index of the speaker-line that opened the accumulator
  blocks,
  compact,
  step,           \* the branch taken by the last step
  last_flush,     \* outcome of the last flush()
  expect,         \* paragraph text of the open accumulator, see ParagraphText
  gap,            \* a blank line was seen since the last accumulated line
  pdf,            \* the document behind pdf_bytes, see Document
  error,          \* the exception the call ended with, "none" without one
  pending,        \* the texts of the calls still to be made
  returned,       \* the values the earlier calls returned
  cache_file,     \* what is at CACHE_PATH, see CacheFile
  session,        \* st.session_state: its keys blocks and selected_chars
  loaded          \* <<>>, or <<v>> once load_cache() has returned v

vars == <<pc, raw, text, lines, ln, current_name, current_lines, cur_first,
          blocks, compact, step, last_flush, expect, gap,
          pdf, error, pending, returned, cache_file, session, loaded>>

\* the cache file and the session state of the page
cache == <<cache_file, session, loaded>>

\* what only the call and its return touch
outer == <<pdf, error, pending, returned, cache>>

\* a document: pdfplumber can read it or not, and each page has a text or
\* none (extract_text() returns None for a page without text)
Document(ok, ps) == [readable |-> ok, pages |-> ps]

NoError == "none"

\* the content of script_cache.json: absent, or present and then readable
\* or not, with the outcome of json.load on it
CacheFile(ex, rd, js) == [exists |-> ex, readable |-> rd, json |-> js]

\* the values json.load returns; parses is FALSE for a text json.load
\* rejects
Json(t, xs, fs) == [parses |-> TRUE, type |-> t, items |-> xs, fields |-> fs]
NoFields == [k \in {} |-> 0]
InvalidJson ==
  [parses |-> FALSE, type |-> "none", items |-> <<>>, fields |-> NoFields]
JList(xs) == Json("list", xs, NoFields)
EmptyList == JList(<<>>)

\* a page that has not touched the cache
NoCache ==
  /\ cache_file = CacheFile(FALSE, FALSE, InvalidJson)
  /\ session = NoFields
  /\ loaded = <<>>

\* a single call whose page texts are already joined
OneCall ==
  /\ pdf = Document(TRUE, <<>>)
  /\ error = NoError
  /\ pending = <<>>
  /\ returned = <<>>
  /\ NoCache

NoFlush == [kind |-> "none", at |-> 0, expect |-> <<>>]

InitWith(r) ==
  /\ pc = "start"
  /\ raw = r
  /\ text = <<>>
  /\ lines = <<>>
  /\ ln = 1
  /\ current_name = <<>>
  /\ current_lines = <<>>
  /\ cur_first = 0
  /\ blocks = <<>>
  /\ compact = <<>>
  /\ step = "init"
  /\ last_flush = NoFlush
  /\ expect = <<>>
  /\ gap = FALSE
  /\ OneCall

\* the page texts joined by newlines: a script of up to MaxLines lines, a
\* special line between two script lines, or a one-line speaker text
Init ==
  \/ \E ls \in SeqsUpTo(ScriptLines, MaxLines) : InitWith(JoinNL(ls))
  \/ \E c1 \in ScriptLines, e \in SpecialLines, c2 \in ScriptLines :
       InitWith(JoinNL(<<c1, e, c2>>))
  \/ \E r \in SpeakerTexts : InitWith(r)

\* text = _preclean_text("\n".join(pages)); for raw_line in text.splitlines()
Preclean ==
  /\ pc = "start"
  /\ text' = preclean_text(raw)
  /\ lines' = SplitLines(text')
  /\ pc' = "seg"
  /\ step' = "preclean"
  /\ UNCHANGED outer
  /\ UNCHANGED <<raw, ln, current_name, current_lines, cur_first, blocks,
                 compact, last_flush, expect, gap>>

\* the raw line taken without .strip()
LineUnstripped == lines[ln]

\* line = raw_line.strip()
Line == Strip(lines[ln])

AtLine == pc = "seg" /\ ln <= Len(lines)

\* what the flush() of the current accumulator does, for the record
FlushOutcome ==
  [kind |-> IF current_name = <<>> THEN "noop"
            ELSE IF FlushEmits(current_name, current_lines) THEN "emitted"
            ELSE "discarded",
   at |-> Len(blocks) + 1,
   expect |-> expect]

\* the text the claim on paragraph breaks expects after one more line x
ParagraphText(e, g, x) ==
  IF e = <<>> THEN x
  ELSE e \o (IF g THEN <<NL, NL>> ELSE <<NL>>) \o x

SegBlank ==
  /\ AtLine
  /\ Line = <<>>
  /\ current_lines' = BlankLine(current_name, current_lines)
  /\ ln' = ln + 1
  /\ step' = "blank"
  /\ gap' = TRUE
  /\ UNCHANGED outer
  /\ UNCHANGED <<pc, raw, text, lines, current_name, cur_first, blocks,
                 compact, last_flush, expect>>

SegHeading ==
  /\ AtLine
  /\ Line # <<>>
  /\ heading_branch(Line)
  /\ blocks' = FlushThenSentinel(blocks, current_name, current_lines,
                                 cur_first, Line, ln)
  /\ last_flush' = FlushOutcome
  /\ current_name' = FlushReset(current_name, current_lines).name
  /\ current_lines' = FlushReset(current_name, current_lines).lines
  /\ cur_first' = 0
  /\ expect' = <<>>
  /\ gap' = FALSE
  /\ ln' = ln + 1
  /\ step' = "heading"
  /\ UNCHANGED outer
  /\ UNCHANGED <<pc, raw, text, lines, compact>>

SegSpeaker ==
  /\ AtLine
  /\ Line # <<>>
  /\ ~heading_branch(Line)
  /\ speaker_pat(Line).ok
  /\ LET m == speaker_pat(Line)
         what == clean_stage_dirs_start(m.what)
     IN /\ blocks' = Flush(blocks, current_name, current_lines, cur_first)
        /\ last_flush' = FlushOutcome
        /\ current_name' = clean_who(m.who)
        /\ current_lines' = IF what # <<>> THEN <<what>> ELSE <<>>
        /\ expect' = what
  /\ cur_first' = ln
  /\ gap' = FALSE
  /\ ln' = ln + 1
  /\ step' = "speaker"
  /\ UNCHANGED outer
  /\ UNCHANGED <<pc, raw, text, lines, compact>>

SegParen ==
  /\ AtLine
  /\ Line # <<>>
  /\ ~heading_branch(Line)
  /\ ~speaker_pat(Line).ok
  /\ IsParenLine(Line)
  /\ blocks' = FlushThenSentinel(blocks, current_name, current_lines,
                                 cur_first, Line, ln)
  /\ last_flush' = FlushOutcome
  /\ current_name' = FlushReset(current_name, current_lines).name
  /\ current_lines' = FlushReset(current_name, current_lines).lines
  /\ cur_first' = 0
  /\ expect' = <<>>
  /\ gap' = FALSE
  /\ ln' = ln + 1
  /\ step' = "paren"
  /\ UNCHANGED outer
  /\ UNCHANGED <<pc, raw, text, lines, compact>>

SegContinuation ==
  /\ AtLine
  /\ Line # <<>>
  /\ ~heading_branch(Line)
  /\ ~speaker_pat(Line).ok
  /\ ~IsParenLine(Line)
  /\ current_name # <<>>
  /\ current_lines' = Continuation(current_lines, Line)
  /\ LET line2 == clean_stage_dirs_start(Line)
     IN IF line2 # <<>>
        THEN expect' = ParagraphText(expect, gap, line2) /\ gap' = FALSE
        ELSE UNCHANGED <<expect, gap>>
  /\ ln' = ln + 1
  /\ step' = "continuation"
  /\ UNCHANGED outer
  /\ UNCHANGED <<pc, raw, text, lines, current_name, cur_first, blocks,
                 compact, last_flush>>

SegStray ==
  /\ AtLine
  /\ Line # <<>>
  /\ ~heading_branch(Line)
  /\ ~speaker_pat(Line).ok
  /\ ~IsParenLine(Line)
  /\ current_name = <<>>
  /\ blocks' = Stray(blocks, Line, ln)
  /\ ln' = ln + 1
  /\ step' = "stray"
  /\ UNCHANGED outer
  /\ UNCHANGED <<pc, raw, text, lines, current_name, current_lines,
                 cur_first, compact, last_flush, expect, gap>>

\* the flush() after the loop
FinalFlush ==
  /\ pc = "seg"
  /\ ln > Len(lines)
  /\ blocks' = EndOfInput(blocks, current_name, current_lines, cur_first)
  /\ last_flush' = FlushOutcome
  /\ current_name' = FlushReset(current_name, current_lines).name
  /\ current_lines' = FlushReset(current_name, current_lines).lines
  /\ cur_first' = 0
  /\ expect' = <<>>
  /\ gap' = FALSE
  /\ pc' = "compact"
  /\ step' = "final_flush"
  /\ UNCHANGED outer
  /\ UNCHANGED <<raw, text, lines, ln, compact>>

\* the compaction loop and the return (blocks, a local that is dead after
\* the loop, keeps the segmenter's output here; in the source a merge also
\* rewrites the text of the dict it shares with compact)
Compaction ==
  /\ pc = "compact"
  /\ compact' = Compactor(blocks)
  /\ pc' = "done"
  /\ step' = "compaction"
  /\ UNCHANGED outer
  /\ UNCHANGED <<raw, text, lines, ln, current_name, current_lines,
                 cur_first, blocks, last_flush, expect, gap>>

Next ==
  \/ Preclean
  \/ SegBlank
  \/ SegHeading
  \/ SegSpeaker
  \/ SegParen
  \/ SegContinuation
  \/ SegStray
  \/ FinalFlush
  \/ Compaction

Spec == Init /\ [][Next]_vars

\* ------------------------------------------------------------------------
\* Properties
\* ------------------------------------------------------------------------
Done == pc = "done"

AllBlocks == {blocks[i] : i \in 1..Len(blocks)} \cup {compact[i] : i \in 1..Len(compact)}

\* C1: every block, before and after compaction, has a text that is
\* non-empty after stripping, and a flush of an open accumulator whose
\* lines join to nothing appends no block
C1_NoEmptyBlocks ==
  /\ \A b \in AllBlocks : Strip(b.text) # <<>>
  /\ last_flush.kind = "discarded" =>
       \/ last_flush.at > Len(blocks)
       \/ ~blocks[last_flush.at].dialogue

\* a parse that ended with blocks emitted and with the final flush
\* discarding an open accumulator that held no text
C1_Witness ==
  /\ Done
  /\ compact # <<>>
  /\ last_flush.kind = "discarded"

BothSentinel(bs, i) ==
  bs[i].character = SCENA /\ bs[i+1].character = SCENA

\* C2: the returned sequence holds no two consecutive blocks whose
\* character is "SCENA"
C2_NoAdjacentSentinels ==
  Done => \A i \in 1..(Len(compact) - 1) : ~BothSentinel(compact, i)

\* a parse whose segmenter output had two adjacent sentinel blocks, which
\* compaction merged
C2_Witness ==
  /\ Done
  /\ \E i \in 1..(Len(blocks) - 1) : BothSentinel(blocks, i)
  /\ Len(compact) < Len(blocks)

Increasing(bs) == \A i \in 1..(Len(bs) - 1) : bs[i].first < bs[i+1].first

\* C3: the indices of the first contributing lines increase strictly along
\* the blocks, before and after compaction (and each is a line of the text)
C3_SourceOrder ==
  /\ Increasing(blocks)
  /\ Increasing(compact)
  /\ \A b \in AllBlocks : b.first \in 1..Len(lines)

\* a parse in which a line both flushed a dialogue block and emitted a
\* sentinel block, returned in that order
C3_Witness ==
  /\ Done
  /\ \E i \in 1..(Len(compact) - 1) :
       /\ compact[i].dialogue
       /\ ~compact[i+1].dialogue
       /\ compact[i].first < compact[i+1].first

\* ------------------------------------------------------------------------
\* The compaction pass on arbitrary block sequences, run twice
\* ------------------------------------------------------------------------
MaxBlocks == 3  \* blocks of a sequence handed to the compaction pass

BlockTexts == { <<"a">>, <<SP, "b">>, <<"c", NL>> }
BlockCharacters == { SCENA, <<"M">> }

BlockSeqs ==
  UNION { { [i \in 1..k |-> Block(cs[i], ts[i], i, cs[i] # SCENA)] :
              cs \in [1..k -> BlockCharacters], ts \in [1..k -> BlockTexts] } :
          k \in 0..MaxBlocks }

InitCompact ==
  /\ pc = "compact"
  /\ blocks \in BlockSeqs
  /\ raw = <<>>
  /\ text = <<>>
  /\ lines = <<>>
  /\ ln = 1
  /\ current_name = <<>>
  /\ current_lines = <<>>
  /\ cur_first = 0
  /\ compact = <<>>
  /\ step = "init"
  /\ last_flush = NoFlush
  /\ expect = <<>>
  /\ gap = FALSE
  /\ OneCall

\* the compaction pass applied to its own output: blocks keeps the input
\* of the second pass
Recompaction ==
  /\ pc = "done"
  /\ blocks' = compact
  /\ compact' = Compactor(compact)
  /\ pc' = "done2"
  /\ step' = "recompaction"
  /\ UNCHANGED outer
  /\ UNCHANGED <<raw, text, lines, ln, current_name, current_lines,
                 cur_first, last_flush, expect, gap>>

NextCompact == Compaction \/ Recompaction

SpecCompact == InitCompact /\ [][NextCompact]_vars

\* C4: compaction is idempotent: a second pass over the output of the
\* first returns the same sequence (same length, characters and texts)
C4_CompactionIdempotent ==
  pc = "done2" => compact = blocks

\* a second pass over the output of a first pass that merged a run of
\* sentinel blocks (the positions after the run's first are missing from
\* its output) and kept a block after the run
C4_Witness ==
  /\ pc = "done2"
  /\ \E i \in 1..(Len(blocks) - 1) :
       /\ blocks[i].character = SCENA
       /\ blocks[i+1].first > blocks[i].first + 1

\* C5: a block flushed from a speaker-line accumulator is returned as its
\* own block with the text it had when flushed, and only blocks that are
\* not attributed dialogue carry the character "SCENA"
C5_DialogueNeverMerged ==
  Done =>
    /\ \A i \in 1..Len(blocks) :
         blocks[i].dialogue =>
           \E j \in 1..Len(compact) : compact[j] = blocks[i]
    /\ \A j \in 1..Len(compact) :
         compact[j].character = SCENA => ~compact[j].dialogue

\* the number of "\n"-separated lines of a text
NumLines(t) == Len(SelectSeq(t, LAMBDA c : c = NL)) + 1

\* C6: the normalizer preserves the number of newline-separated lines
C6_LineCountPreserved ==
  pc # "start" => NumLines(text) = NumLines(raw)

WellFormedName(c) ==
  /\ c # <<>>
  /\ \A i \in 1..Len(c) : c[i] \notin {"(", ")"}
  /\ c[1] \notin Whitespace
  /\ c[Len(c)] \notin Whitespace
  /\ \A i \in 1..(Len(c) - 1) : ~(c[i] \in Whitespace /\ c[i+1] \in Whitespace)

\* C7: the character of every block (and the name of the open
\* accumulator) is "SCENA" or a non-empty name without parentheses,
\* without leading or trailing whitespace, without two whitespace
\* characters in a row
C7_CharacterWellFormed ==
  /\ \A b \in AllBlocks : b.character = SCENA \/ WellFormedName(b.character)
  /\ current_name # <<>> => WellFormedName(current_name)

\* a returned dialogue block whose speaker-line carried a parenthetical
\* annotation and a run of spaces in the name
C7_Witness ==
  /\ Done
  /\ \E j \in 1..Len(compact) :
       /\ compact[j].dialogue
       /\ LET who == speaker_pat(Strip(lines[compact[j].first])).who
          IN /\ Contains(who, <<"(">>)
             /\ Contains(who, <<SP, SP>>)
             /\ compact[j].character # who

\* C8: the text of a block flushed from an accumulator is its accumulated
\* lines in order, joined by one newline, or by one empty line where one
\* or more blank lines came between two of them; blank lines before the
\* first or after the last accumulated line leave no trace
C8_ParagraphBreaks ==
  last_flush.kind = "emitted" =>
    /\ last_flush.at <= Len(blocks)
    /\ blocks[last_flush.at].dialogue
    /\ blocks[last_flush.at].text = last_flush.expect

IsBlank(i) == i \in 1..Len(lines) /\ Strip(lines[i]) = <<>>

\* a returned dialogue block with exactly one empty line in its text where
\* the input had two blank lines in a row between two accumulated lines
C8_Witness ==
  /\ Done
  /\ \E j \in 1..Len(compact) :
       LET b == compact[j]
       IN /\ b.dialogue
          /\ IsBlank(b.first + 1)
          /\ IsBlank(b.first + 2)
          /\ b.first + 3 <= Len(lines)
          /\ ~IsBlank(b.first + 3)
          /\ Contains(b.text, <<NL, NL>>)
          /\ ~Contains(b.text, <<NL, NL, NL>>)

\* the index after the ")" that balances the "(" at s[1], when the group
\* is balanced with at most one level of nested parentheses; 0 otherwise
BalancedEnd(s) ==
  LET D[i \in 1..Len(s)+1] ==
        \* <<depth before s[i], index after the closing ")" or 0, refused>>
        IF i = 1 THEN <<0, 0, FALSE>>
        ELSE LET p == D[i-1]
                 c == s[i-1]
             IN IF p[2] # 0 \/ p[3] THEN p
                ELSE IF c = "(" THEN <<p[1] + 1, 0, p[1] + 1 > 2>>
                ELSE IF c = ")" THEN <<p[1] - 1, IF p[1] = 1 THEN i ELSE 0, FALSE>>
                ELSE p
      r == D[Len(s)+1]
  IN IF Len(s) > 0 /\ s[1] = "(" /\ ~r[3] THEN r[2] ELSE 0

\* what the claim says is stored for the string s; covered is FALSE where
\* the claim says nothing (an unbalanced or deeper leading group)
StoredFor(s) ==
  IF s = <<>> \/ s[1] # "("
  THEN [covered |-> TRUE, stored |-> s]
  ELSE IF BalancedEnd(s) # 0
  THEN [covered |-> TRUE, stored |-> From(s, SkipWS(s, BalancedEnd(s)))]
  ELSE [covered |-> FALSE, stored |-> <<>>]

\* C9: from a speaker-line remainder or a continuation line, a balanced
\* leading parenthetical (at most one level of nesting) and the whitespace
\* after it are removed, and a string that does not begin with "(" is
\* stored unchanged
C9_StageDirection ==
  /\ step = "speaker" =>
       LET x == StoredFor(speaker_pat(Strip(lines[ln-1])).what)
       IN x.covered =>
            current_lines = IF x.stored = <<>> THEN <<>> ELSE <<x.stored>>
  /\ step = "continuation" =>
       LET x == StoredFor(Strip(lines[ln-1]))
       IN x.covered =>
            /\ current_lines # <<>>
            /\ current_lines[Len(current_lines)] = x.stored

\* a speaker-line whose remainder began with a nested parenthetical, which
\* was removed, and held a later parenthetical, which was kept
C9_Witness ==
  /\ step = "speaker"
  /\ LET w == speaker_pat(Strip(lines[ln-1])).what
     IN /\ Contains(w, <<"(", "c", "(">>)
        /\ w[1] = "("
        /\ current_lines # <<>>
        /\ Len(current_lines[1]) < Len(w)
        /\ Contains(current_lines[1], <<"(">>)

\* C10: a non-blank line that is no heading, no speaker-line and no
\* standalone parenthetical, met with no block open, appends one sentinel
\* block whose text is that stripped line, and no block is open after it
C10_StrayLine ==
  [][ ( /\ pc = "seg"
        /\ ln <= Len(lines)
        /\ Strip(lines[ln]) # <<>>
        /\ ~is_section_heading(Strip(lines[ln]))
        /\ ~speaker_pat(Strip(lines[ln])).ok
        /\ ~IsParenLine(Strip(lines[ln]))
        /\ current_name = <<>> )
      => ( /\ Len(blocks') = Len(blocks) + 1
           /\ SubSeq(blocks', 1, Len(blocks)) = blocks
           /\ blocks'[Len(blocks')].character = SCENA
           /\ blocks'[Len(blocks')].text = Strip(lines[ln])
           /\ current_name' = <<>>
           /\ current_lines' = <<>> ) ]_vars

\* a stray line that begins with a parenthetical, stored whole as the text
\* of a new sentinel block
C10_Witness ==
  /\ step = "stray"
  /\ blocks # <<>>
  /\ blocks[Len(blocks)].character = SCENA
  /\ blocks[Len(blocks)].text = Strip(lines[ln-1])
  /\ blocks[Len(blocks)].text[1] = "("
  /\ current_name = <<>>

\* ------------------------------------------------------------------------
\* Successive calls
\* ------------------------------------------------------------------------
MaxFirstLines == 2
MaxSecondLines == 1

CallTexts(n) == { JoinNL(ls) : ls \in SeqsUpTo(ScriptLines, n) }

Locals(bs, name, lns) ==
  [blocks |-> bs, current_name |-> name, current_lines |-> lns]

\* a parser whose block list and accumulator outlive the call
CallEntryStale(prev) == prev

\* the locals a call starts with, whatever the call before it left (prev):
\* blocks = [], current_name = None, current_lines = []
CallEntry(prev) == Locals(<<>>, <<>>, <<>>)

\* three calls in one process: the text b, then a, then b again
InitCalls ==
  \E a \in CallTexts(MaxFirstLines), b \in CallTexts(MaxSecondLines) :
    /\ pc = "start"
    /\ raw = b
    /\ pending = <<a, b>>
    /\ returned = <<>>
    /\ NoCache
    /\ pdf = Document(TRUE, <<>>)
    /\ error = NoError
    /\ text = <<>>
    /\ lines = <<>>
    /\ ln = 1
    /\ current_name = <<>>
    /\ current_lines = <<>>
    /\ cur_first = 0
    /\ blocks = <<>>
    /\ compact = <<>>
    /\ step = "init"
    /\ last_flush = NoFlush
    /\ expect = <<>>
    /\ gap = FALSE

\* `return compact`, then the next call up to its first statement
NextCall ==
  /\ pc = "done"
  /\ pending # <<>>
  /\ returned' = Append(returned, [input |-> raw, result |-> compact])
  /\ raw' = Head(pending)
  /\ pending' = Tail(pending)
  /\ LET e == CallEntry(Locals(blocks, current_name, current_lines))
     IN /\ blocks' = e.blocks
        /\ current_name' = e.current_name
        /\ current_lines' = e.current_lines
  /\ text' = <<>>
  /\ lines' = <<>>
  /\ ln' = 1
  /\ cur_first' = 0
  /\ compact' = <<>>
  /\ last_flush' = NoFlush
  /\ expect' = <<>>
  /\ gap' = FALSE
  /\ pc' = "start"
  /\ step' = "call"
  /\ UNCHANGED <<pdf, error, cache>>

NextCalls == Next \/ NextCall

SpecCalls == InitCalls /\ [][NextCalls]_vars

\* C11: the parser keeps no state across invocations.  Whatever calls were
\* made before, a call returns what the call on the same text returned in
\* a fresh process (the first of the three calls).
C11_NoStateAcrossCalls ==
  Done =>
    \A k \in 1..Len(returned) :
      returned[k].input = raw => compact = returned[k].result

\* the third call returns blocks after a second call on another text that
\* returned blocks too and ended with a speaker's block open
C11_Witness ==
  /\ Done
  /\ Len(returned) = 2
  /\ returned[1].input = raw
  /\ returned[2].input # raw
  /\ compact # <<>>
  /\ returned[2].result # <<>>
  /\ returned[2].result[Len(returned[2].result)].dialogue

\* ------------------------------------------------------------------------
\* Text extraction
\* ------------------------------------------------------------------------
MaxPages == 3

Page(none, t) == [none |-> none, text |-> t]

Pages == {Page(TRUE, <<>>)} \cup { Page(FALSE, l) : l \in ScriptLines }

\* (p.extract_text() or '')
PageText(p) == IF p.none THEN <<>> ELSE p.text

\* the exception pdfplumber ends with on a document it cannot read, and
\* the exception class the specification names
PdfplumberError == "pdfplumber"
ExtractionError == "ExtractionError"

InitExtract ==
  \E ok \in BOOLEAN, ps \in SeqsUpTo(Pages, MaxPages) :
    /\ pc = "open"
    /\ pdf = Document(ok, ps)
    /\ error = NoError
    /\ pending = <<>>
    /\ returned = <<>>
    /\ NoCache
    /\ raw = <<>>
    /\ text = <<>>
    /\ lines = <<>>
    /\ ln = 1
    /\ current_name = <<>>
    /\ current_lines = <<>>
    /\ cur_first = 0
    /\ blocks = <<>>
    /\ compact = <<>>
    /\ step = "init"
    /\ last_flush = NoFlush
    /\ expect = <<>>
    /\ gap = FALSE

\* with pdfplumber.open(...) as pdf: pages = [...]; "\n".join(pages)
ExtractOk ==
  /\ pc = "open"
  /\ pdf.readable
  /\ raw' = JoinNL([i \in 1..Len(pdf.pages) |-> PageText(pdf.pages[i])])
  /\ pc' = "start"
  /\ step' = "extract"
  /\ UNCHANGED <<text, lines, ln, current_name, current_lines, cur_first,
                 blocks, compact, last_flush, expect, gap, outer>>

\* pdfplumber raises; no except clause is around it, in the function or in
\* its caller, so the call ends with that exception
ExtractFail ==
  /\ pc = "open"
  /\ ~pdf.readable
  /\ error' = PdfplumberError
  /\ pc' = "raised"
  /\ step' = "raise"
  /\ UNCHANGED <<raw, text, lines, ln, current_name, current_lines,
                 cur_first, blocks, compact, last_flush, expect, gap,
                 pdf, pending, returned, cache>>

NextExtract == ExtractOk \/ ExtractFail \/ Next

SpecExtract == InitExtract /\ [][NextExtract]_vars

\* C12: when the extractor fails the call ends with an ExtractionError,
\* returns no blocks, and no step of the normaliser, the segmenter or the
\* compactor has run.
C12_ExtractionError ==
  pc = "raised" =>
    /\ error = ExtractionError
    /\ text = <<>>
    /\ lines = <<>>
    /\ blocks = <<>>
    /\ compact = <<>>
    /\ step = "raise"

\* ------------------------------------------------------------------------
\* Properties of the segmenter and of the compactor, continued
\* ------------------------------------------------------------------------
\* C13: the text of every block, from a flush, from a sentinel line or
\* from a merge, equals its own strip.
C13_TextStripped == \A b \in AllBlocks : Strip(b.text) = b.text

\* a returned speech whose accumulator ended with a blank-line marker, next
\* to a returned block merged from two sentinel blocks
C13_Witness ==
  /\ Done
  /\ \E j \in 1..Len(compact) :
       /\ compact[j].dialogue
       /\ IsBlank(compact[j].first + 1)
       /\ compact[j].first + 2 <= Len(lines)
       /\ ~Contains(compact[j].text, <<NL>>)
  /\ \E j \in 1..Len(compact) :
       /\ ~compact[j].dialogue
       /\ Contains(compact[j].text, <<NL>>)

BlankText(t) == \A i \in 1..Len(t) : t[i] \in Whitespace

\* C14: a text that is empty or has only blank lines gives no block.
C14_BlankInputNoBlocks ==
  (Done /\ BlankText(raw)) => (blocks = <<>> /\ compact = <<>>)

\* the call returned for a text of several lines, one of them of blanks
C14_Witness ==
  /\ Done
  /\ BlankText(raw)
  /\ Len(lines) >= 2
  /\ \E i \in 1..Len(lines) : lines[i] # <<>>
  /\ compact = <<>>

\* the classification of the lines of the normalised text, in the order
\* the claims give it: blank, heading, speaker-line, standalone
\* parenthetical, plain
LineAt(i) == Strip(lines[i])
IsHeadingAt(i) ==
  i \in 1..Len(lines) /\ LineAt(i) # <<>> /\ is_section_heading(LineAt(i))
IsSpeakerAt(i) ==
  /\ i \in 1..Len(lines)
  /\ LineAt(i) # <<>>
  /\ ~is_section_heading(LineAt(i))
  /\ speaker_pat(LineAt(i)).ok
IsParenAt(i) ==
  /\ i \in 1..Len(lines)
  /\ LineAt(i) # <<>>
  /\ ~is_section_heading(LineAt(i))
  /\ ~speaker_pat(LineAt(i)).ok
  /\ IsParenLine(LineAt(i))
IsPlainAt(i) ==
  /\ i \in 1..Len(lines)
  /\ LineAt(i) # <<>>
  /\ ~is_section_heading(LineAt(i))
  /\ ~speaker_pat(LineAt(i)).ok
  /\ ~IsParenLine(LineAt(i))

\* the accumulator holds a speech that a flush emits
OpenSpeech == current_name # <<>> /\ Strip(JoinNL(current_lines)) # <<>>

\* C15: a non-blank line that passes the heading test flushes the open
\* block and becomes a sentinel block with exactly that line as text, and
\* no block is open after it, also when the line has the form of a
\* speaker-line.
C15_HeadingBeforeSpeaker ==
  [][ (AtLine /\ IsHeadingAt(ln))
      => LET k == Len(blocks')
         IN /\ k >= 1
            /\ blocks'[k].character = SCENA
            /\ blocks'[k].text = LineAt(ln)
            /\ ~blocks'[k].dialogue
            /\ current_name' = <<>>
            /\ current_lines' = <<>>
            /\ SubSeq(blocks', 1, Len(blocks)) = blocks
            /\ IF OpenSpeech
               THEN /\ k = Len(blocks) + 2
                    /\ blocks'[k-1].character = current_name
                    /\ blocks'[k-1].text = Strip(JoinNL(current_lines))
               ELSE k = Len(blocks) + 1 ]_vars

\* a heading line of the form "Name: words" right after an open speech
C15_Witness ==
  /\ step = "heading"
  /\ speaker_pat(LineAt(ln - 1)).ok
  /\ last_flush.kind = "emitted"
  /\ blocks[Len(blocks)].text = LineAt(ln - 1)
  /\ blocks[Len(blocks)].character = SCENA
  /\ current_name = <<>>

\* C16: every flush leaves the accumulator empty, whether or not it
\* appended a block; a plain line after a heading or a standalone
\* parenthetical, with no speaker-line in between, becomes a sentinel
\* block and is not accumulated.
C16_FlushLeavesNoOpenBlock ==
  [][ /\ step' \in {"heading", "paren", "final_flush"}
         => (current_name' = <<>> /\ current_lines' = <<>>)
      /\ ( /\ AtLine
           /\ IsPlainAt(ln)
           /\ \E j \in 1..(ln - 1) :
                /\ IsHeadingAt(j) \/ IsParenAt(j)
                /\ \A k \in (j + 1)..(ln - 1) : ~IsSpeakerAt(k) )
         => ( /\ Len(blocks') = Len(blocks) + 1
              /\ SubSeq(blocks', 1, Len(blocks)) = blocks
              /\ blocks'[Len(blocks')].character = SCENA
              /\ blocks'[Len(blocks')].text = LineAt(ln)
              /\ current_name' = <<>>
              /\ current_lines' = <<>> ) ]_vars

\* a plain line stored as a sentinel block after a heading or standalone
\* parenthetical whose flush found a speaker open without text
C16_Witness ==
  /\ step = "stray"
  /\ ln >= 4
  /\ IsSpeakerAt(ln - 3)
  /\ IsHeadingAt(ln - 2) \/ IsParenAt(ln - 2)
  /\ IsPlainAt(ln - 1)
  /\ last_flush.kind = "discarded"
  /\ blocks[Len(blocks)].text = LineAt(ln - 1)
  /\ current_name = <<>>

IsSentinelAt(bs, i) == i \in 1..Len(bs) /\ bs[i].character = SCENA

\* the blocks that start a maximal run of sentinel blocks, or are no
\* sentinel block
RunStarts(bs) ==
  { i \in 1..Len(bs) : ~(IsSentinelAt(bs, i) /\ IsSentinelAt(bs, i - 1)) }

\* the last block of the run of sentinel blocks that starts at i
RunEnd(bs, i) ==
  CHOOSE k \in i..Len(bs) :
    /\ \A n \in i..k : IsSentinelAt(bs, n)
    /\ ~IsSentinelAt(bs, k + 1)

\* the texts of bs[i..k] joined with newlines
RunText(bs, i, k) == JoinNL([n \in 1..(k - i + 1) |-> bs[i + n - 1].text])

\* C17: the compactor replaces each maximal run of consecutive sentinel
\* blocks of the segmenter's output by one sentinel block whose text is the
\* texts of the run joined with newlines in order, leaves every other block
\* as it is and in place, and returns as many blocks as it got minus the
\* merged ones.
C17_RunsMerged ==
  Done =>
    LET starts == RunStarts(blocks)
        merged == { i \in 1..Len(blocks) : i \notin starts }
    IN /\ Len(compact) = Len(blocks) - Cardinality(merged)
       /\ \A i \in starts :
            LET pos == Cardinality({ s \in starts : s <= i })
            IN IF IsSentinelAt(blocks, i)
               THEN /\ compact[pos].character = SCENA
                    /\ compact[pos].text = RunText(blocks, i, RunEnd(blocks, i))
               ELSE compact[pos] = blocks[i]

\* a run of three sentinel blocks after a speech, returned as one block
C17_Witness ==
  /\ Done
  /\ Len(blocks) = 4
  /\ Len(compact) = 2
  /\ ~IsSentinelAt(blocks, 1)
  /\ compact[1] = blocks[1]
  /\ \A i \in 2..4 : IsSentinelAt(blocks, i)
  /\ compact[2].text =
       blocks[2].text \o <<NL>> \o blocks[3].text \o <<NL>> \o blocks[4].text

\* C18: at the end of the input the open block is flushed: an open speech
\* with text is appended as the last block of the segmenter's output, and
\* no block is open once the lines are exhausted.
C18_EndOfInputFlush ==
  [][ /\ (pc = "seg" /\ ln > Len(lines))
         => IF OpenSpeech
            THEN /\ Len(blocks') = Len(blocks) + 1
                 /\ SubSeq(blocks', 1, Len(blocks)) = blocks
                 /\ blocks'[Len(blocks')].character = current_name
                 /\ blocks'[Len(blocks')].text = Strip(JoinNL(current_lines))
            ELSE blocks' = blocks
      /\ pc' \in {"compact", "done"}
         => (current_name' = <<>> /\ current_lines' = <<>>) ]_vars

\* the final flush appended the speech of the speaker open at the end of
\* the input, after other blocks
C18_Witness ==
  /\ step = "final_flush"
  /\ last_flush.kind = "emitted"
  /\ Len(blocks) >= 2
  /\ blocks[Len(blocks)].dialogue
  /\ blocks[Len(blocks)].first < Len(lines)
  /\ current_name = <<>>
  /\ current_lines = <<>>

\* the speaker-lines whose remainder is empty after stage-direction
\* stripping
OpensEmptyAt(i) ==
  /\ IsSpeakerAt(i)
  /\ clean_stage_dirs_start(speaker_pat(LineAt(i)).what) = <<>>

\* the next flush trigger after line i: the next speaker-line, heading or
\* standalone parenthetical, or the end of the input
NextTrigger(i) ==
  LET ts == { k \in (i + 1)..Len(lines) :
                IsSpeakerAt(k) \/ IsHeadingAt(k) \/ IsParenAt(k) }
  IN IF ts = {} THEN Len(lines) + 1
     ELSE CHOOSE k \in ts : \A n \in ts : k <= n

\* the plain lines in i+1..j-1 that are non-empty after stage-direction
\* stripping
PlainBetween(i, j) ==
  { k \in (i + 1)..(j - 1) :
      IsPlainAt(k) /\ clean_stage_dirs_start(LineAt(k)) # <<>> }

\* C19: a speaker-line with an empty remainder opens a block: while no
\* flush trigger has come its speaker is open and holds the plain lines
\* met so far; after the trigger a block with that speaker, starting with
\* the first of these lines, was emitted if there was one, and no block
\* was emitted for the speaker-line if there was none.
C19_EmptyRemainderOpens ==
  \A i \in 1..Len(lines) :
    (i < ln /\ OpensEmptyAt(i)) =>
      LET j == NextTrigger(i)
          who == clean_who(speaker_pat(LineAt(i)).who)
          flushed == IF j <= Len(lines) THEN j < ln ELSE pc # "seg"
          got == PlainBetween(i, IF flushed THEN j ELSE ln)
          mine == { n \in 1..Len(blocks) : blocks[n].first = i }
      IN IF ~flushed
         THEN /\ current_name = who
              /\ mine = {}
              /\ (current_lines # <<>>) <=> (got # {})
              /\ got # {} =>
                   current_lines[1] =
                     clean_stage_dirs_start(
                       LineAt(CHOOSE k \in got : \A n \in got : k <= n))
         ELSE IF got = {} THEN mine = {}
         ELSE \E n \in mine :
                /\ mine = {n}
                /\ blocks[n].character = who
                /\ blocks[n].dialogue
                /\ StartsWith(blocks[n].text,
                     clean_stage_dirs_start(
                       LineAt(CHOOSE k \in got : \A q \in got : k <= q)))

\* two speaker-lines with empty remainder in one text: the first returned
\* the plain line after it as its speech, the second returned nothing
C19_Witness ==
  /\ Done
  /\ \E i, i2 \in 1..Len(lines) :
       /\ OpensEmptyAt(i)
       /\ OpensEmptyAt(i2)
       /\ IsPlainAt(i + 1)
       /\ \E n \in 1..Len(compact) :
            /\ compact[n].first = i
            /\ compact[n].dialogue
            /\ compact[n].text = LineAt(i + 1)
       /\ \A n \in 1..Len(compact) : compact[n].first # i2

\* C20: no text of a block has three newlines in a row.
C20_NoTripleNewline ==
  \A b \in AllBlocks : ~Contains(b.text, <<NL, NL, NL>>)

\* a returned text with an empty line where the input had blank lines in a
\* row after the first line of the block
C20_Witness ==
  /\ Done
  /\ \E j \in 1..Len(compact), i \in 1..Len(lines) :
       /\ Contains(compact[j].text, <<"a", NL, NL, "a">>)
       /\ compact[j].first < i
       /\ IsBlank(i)
       /\ IsBlank(i + 1)

\* ------------------------------------------------------------------------
\* The cache file
\* ------------------------------------------------------------------------
MaxCacheItems == 2

\* what the lists of a cache file hold: abstract entries
CacheItems == {"x", "y"}
CacheKeys == {"blocks", "selected_chars"}

JNull == Json("null", <<>>, NoFields)
Atoms ==
  { JNull, Json("number", <<>>, NoFields), Json("string", <<>>, NoFields),
    Json("bool", <<>>, NoFields) }
Lists == { JList(xs) : xs \in SeqsUpTo(CacheItems, MaxCacheItems) }
Dicts ==
  { Json("dict", <<>>, f) :
      f \in UNION { [S -> Lists \cup {JNull}] : S \in SUBSET CacheKeys } }

\* no file; a file that cannot be opened or decoded; a file with a text
\* json.load rejects; a file with a JSON value
CacheFiles ==
  { CacheFile(FALSE, FALSE, InvalidJson), CacheFile(TRUE, FALSE, InvalidJson) }
  \cup { CacheFile(TRUE, TRUE, j) :
           j \in {InvalidJson} \cup Atoms \cup Lists \cup Dicts }

\* the session state a run of the page starts with
Sessions ==
  UNION { [S -> {JList(<<"x">>)}] : S \in SUBSET CacheKeys }

\* data.get(k, [])
Get(d, k) == IF k \in DOMAIN d.fields THEN d.fields[k] ELSE EmptyList

\* what a call of load_cache ends with: an exception or a pair
Result(e, b, s) == [error |-> e, blocks |-> b, selected_chars |-> s]

\* load_cache without its try/except
load_cache_no_handler(f) ==
  IF ~f.exists THEN Result(NoError, EmptyList, EmptyList)
  ELSE IF ~f.readable THEN Result("OSError", EmptyList, EmptyList)
  ELSE IF ~f.json.parses THEN Result("JSONDecodeError", EmptyList, EmptyList)
  ELSE IF f.json.type = "list" THEN Result(NoError, f.json, EmptyList)
  ELSE IF f.json.type = "dict"
    THEN Result(NoError, Get(f.json, "blocks"), Get(f.json, "selected_chars"))
  ELSE Result(NoError, EmptyList, EmptyList)

\* load_cache(): os.path.exists, then open and json.load inside the try,
\* whose `except Exception: pass` falls through to `return [], []`
load_cache(f) ==
  IF ~f.exists THEN Result(NoError, EmptyList, EmptyList)
  ELSE IF ~f.readable \/ ~f.json.parses
    THEN Result(NoError, EmptyList, EmptyList)
  ELSE IF f.json.type = "list" THEN Result(NoError, f.json, EmptyList)
  ELSE IF f.json.type = "dict"
    THEN Result(NoError, Get(f.json, "blocks"), Get(f.json, "selected_chars"))
  ELSE Result(NoError, EmptyList, EmptyList)

InitCache ==
  /\ pc = "page"
  /\ cache_file \in CacheFiles
  /\ session \in Sessions
  /\ loaded = <<>>
  /\ pdf = Document(TRUE, <<>>)
  /\ error = NoError
  /\ pending = <<>>
  /\ returned = <<>>
  /\ raw = <<>>
  /\ text = <<>>
  /\ lines = <<>>
  /\ ln = 1
  /\ current_name = <<>>
  /\ current_lines = <<>>
  /\ cur_first = 0
  /\ blocks = <<>>
  /\ compact = <<>>
  /\ step = "init"
  /\ last_flush = NoFlush
  /\ expect = <<>>
  /\ gap = FALSE

parser == <<raw, text, lines, ln, current_name, current_lines, cur_first,
            blocks, compact, last_flush, expect, gap>>

\* blocks_cached, selected_cached = load_cache(), when a key is missing
LoadCache ==
  /\ pc = "page"
  /\ DOMAIN session # CacheKeys
  /\ LET r == load_cache(cache_file)
     IN /\ loaded' = <<r>>
        /\ error' = r.error
        /\ pc' = IF r.error = NoError THEN "loaded" ELSE "raised"
  /\ step' = "load_cache"
  /\ UNCHANGED <<parser, pdf, pending, returned, cache_file, session>>

\* both keys are in the session state: load_cache is not called
SkipLoad ==
  /\ pc = "page"
  /\ DOMAIN session = CacheKeys
  /\ pc' = "ready"
  /\ step' = "skip_load"
  /\ UNCHANGED <<parser, outer>>

\* the two `if ... not in st.session_state` assignments
InitialState ==
  /\ pc = "loaded"
  /\ session' =
       [k \in CacheKeys |->
          IF k \in DOMAIN session THEN session[k]
          ELSE IF k = "blocks" THEN loaded[1].blocks
          ELSE loaded[1].selected_chars]
  /\ pc' = "ready"
  /\ step' = "initial_state"
  /\ UNCHANGED <<parser, pdf, error, pending, returned, cache_file, loaded>>

NextCache == LoadCache \/ SkipLoad \/ InitialState

SpecCache == InitCache /\ [][NextCache]_vars

\* the file is missing, cannot be read, is no JSON, or holds a value that
\* is neither a list nor an object
NothingToLoad(f) ==
  \/ ~f.exists
  \/ ~f.readable
  \/ ~f.json.parses
  \/ f.json.type \notin {"list", "dict"}

\* C21: load_cache ends with no exception; it returns empty blocks and an
\* empty selection when the file is missing, unreadable, no valid JSON or
\* neither a list nor an object, and a bare list as the blocks with an
\* empty selection.
C21_LoadCacheNeverFails ==
  loaded # <<>> =>
    /\ error = NoError
    /\ loaded[1].error = NoError
    /\ pc # "raised"
    /\ NothingToLoad(cache_file) =>
         /\ loaded[1].blocks = EmptyList
         /\ loaded[1].selected_chars = EmptyList
    /\ (~NothingToLoad(cache_file) /\ cache_file.json.type = "list") =>
         /\ loaded[1].blocks = cache_file.json
         /\ loaded[1].selected_chars = EmptyList

\* a page started with an empty session state and a cache file that is no
\* valid JSON: it got empty blocks and an empty selection
C21_Witness ==
  /\ pc = "ready"
  /\ loaded # <<>>
  /\ cache_file.exists
  /\ cache_file.readable
  /\ ~cache_file.json.parses
  /\ session["blocks"] = EmptyList
  /\ session["selected_chars"] = EmptyList

============================================================================
